---- MODULE Spec2Model ----
(***************************************************************************)
(* Model of src/src/client.rs (mumble-rs): the control-channel client.     *)
(*                                                                         *)
(* Threads: the caller (runs Client::new, then clones / drops its          *)
(* Arc<Client>, or unwraps it and calls Client::reconnect), the keep-alive *)
(* thread spawned by Client::new, and, in the specification SpecSend,      *)
(* threads that call send_message on one shared Client.                    *)
(*                                                                         *)
(* A transport (one SslStream<TcpStream>) is a number 1..MaxTransports;    *)
(* 0 stands for "no transport".  wire[tr] is what has been written to it.  *)
(***************************************************************************)
EXTENDS Integers, Sequences, FiniteSets, TLC

\* ------------------------------------------------------------------ bounds
MaxTransports == 2     \* TcpStream::connect succeeds at most this many times
MaxWrites == 4         \* ssl_write succeeds at most this many times per transport
MaxHandles == 2        \* Arc<Client> handles the caller holds at once
MaxInterrupts == 4     \* the stub transport interrupts the handshake 0..MaxInterrupts times
MaxHardAt == 4         \* the stub's hard failure comes at attempt 1..MaxHardAt (0: never)
NumSenders == 2        \* threads of SpecSend
MaxCalls == 2          \* send_message calls per thread of SpecSend
MaxAfter == 2          \* cap of the counts kept in `after`

\* --------------------------------------------------------- program constants
SSL_HANDSHAKE_RETRIES == 3
VersionId == 0
AuthenticateId == 2
PingId == 3
\* One wire item standing for the whole content of a payload too long to enumerate.
Elided == -1

Caller == "caller"
Worker == "worker"
SenderNames == <<"s1", "s2", "s3", "s4">>
Senders == {SenderNames[i] : i \in 1..NumSenders}
Threads == {Caller, Worker} \cup Senders
Transports == 1..MaxTransports

\* ------------------------------------------------------------ frame encoding
\* A length (usize / u64) is kept as base-256 digits, least significant first,
\* so that lengths beyond 2^31 are exact.
LenDigits(n) ==
    <<n % 256, (n \div 256) % 256, (n \div 65536) % 256, (n \div 16777216) % 256, 0>>

\* u32::max_value() as u64
U32_MAX == <<255, 255, 255, 255, 0>>

RECURSIVE DigitsGTFrom(_, _, _)
DigitsGTFrom(a, b, i) ==
    IF i = 0 THEN FALSE
    ELSE IF a[i] > b[i] THEN TRUE
    ELSE IF a[i] < b[i] THEN FALSE
    ELSE DigitsGTFrom(a, b, i - 1)

\* a > b on u64 values
DigitsGT(a, b) == DigitsGTFrom(a, b, Len(a))

\* message.write_to_bytes(): a payload is its length and its bytes; the bytes of
\* a stub payload too long to enumerate are the one item Elided.
Payload(bytes) == [len |-> LenDigits(Len(bytes)), bytes |-> bytes]
StubPayload(digits) == [len |-> digits, bytes |-> <<Elided>>]

\* packet.write_u16::<BigEndian>(id)
WriteU16BE(id) == <<(id \div 256) % 256, id % 256>>

\* payload.len() as u32
AsU32(len) == SubSeq(len, 1, 4)

\* mutant: the length written little-endian
WriteU32LE(v) == <<v[1], v[2], v[3], v[4]>>

\* packet.write_u32::<BigEndian>(v)
WriteU32BE(v) == <<v[4], v[3], v[2], v[1]>>

\* the guard of line 168
PayloadTooLarge(payload) == DigitsGT(payload.len, U32_MAX)

\* lines 164-176: the packet send_message builds
Packet(id, payload) ==
    WriteU16BE(id) \o WriteU32BE(AsU32(payload.len)) \o payload.bytes

\* ------------------------------------------------------------------- inputs
VersionPayloads == {Payload(<<8>>)}
AuthPayloads == {Payload(<<10, 18>>), StubPayload(<<0, 0, 0, 0, 1>>)}
PingPayload == Payload(<<>>)

\* what the threads of SpecSend send: <<id, payload>>
SendMessages ==
    {<<PingId, Payload(<<>>)>>,
     <<VersionId, Payload(<<7>>)>>,
     <<AuthenticateId, StubPayload(<<0, 0, 0, 0, 1>>)>>}

\* what the one thread of SpecFrame sends
FrameIds == {VersionId, AuthenticateId, PingId, 258, 65535}
FramePayloads ==
    {Payload(<<>>), Payload(<<7>>), Payload(<<7, 9>>), Payload(<<0, 255, 1>>),
     StubPayload(<<4, 3, 2, 1, 0>>),          \* 0x01020304 bytes
     StubPayload(<<255, 255, 255, 255, 0>>),  \* 2^32 - 1 bytes
     StubPayload(<<0, 0, 0, 0, 1>>),          \* 2^32 bytes
     StubPayload(<<1, 0, 0, 0, 1>>)}          \* 2^32 + 1 bytes

NoSend == [pc |-> "idle", id |-> 0, payload |-> Payload(<<>>), packet |-> <<>>,
           n |-> 0, tr |-> 0, res |-> "none"]
NoStub == [k |-> 0, hard |-> 0]
NoneAfter == [pings |-> 0, sleeps |-> 0]

VARIABLES
    pc,               \* where each thread is
    op,               \* the public operation the caller is in: none, new, reconnect
    stub,             \* the transport's handshake script for the connect in progress
    tries,            \* connect's local `tries`
    attempts,         \* handshake calls issued by the connect in progress
    connRes,          \* what connect returned
    stream,           \* connect's local stream / returned SslStream (0: none)
    created,          \* transports opened so far
    control_channel,  \* Client.control_channel: the transport inside the Mutex (0: no Client)
    lock,             \* the Mutex: "free" or the thread holding the guard
    wire,             \* per transport, the items written
    nwrites,          \* per transport, ssl_write calls that returned Ok
    done,             \* per transport, the packets whose ssl_write returned Ok, in order
    open,             \* transports not yet dropped
    secured,          \* transports whose TLS handshake completed
    handles,          \* Arc<Client> strong handles held on the caller's side
    owned,            \* the caller holds the Client by value (after Arc::try_unwrap)
    workerStrong,     \* the keep-alive thread holds an upgraded Arc<Client>
    send,             \* per thread, its send_message call
    newResult,        \* what Client::new returned
    reconnectResult,  \* what the last Client::reconnect returned
    prev,             \* control_channel when the last reconnect was called
    calls,            \* the calls Client::new has made, in order
    spawned,          \* keep-alive threads started
    ncalls,           \* per SpecSend thread, send_message calls made
    poisoned,         \* the Mutex is poisoned: a thread panicked while holding the guard
    after             \* what the keep-alive thread has done since the caller's release

vars == <<pc, op, stub, tries, attempts, connRes, stream, created, control_channel,
          lock, wire, nwrites, done, open, secured, handles, owned, workerStrong,
          send, newResult, reconnectResult, prev, calls, spawned, ncalls, poisoned, after>>

Min(a, b) == IF a < b THEN a ELSE b

\* Client::new returned a session and the caller has since given up every
\* owning reference to it.
Released == newResult = <<"Ok">> /\ handles = 0 /\ ~owned

connVars == <<stub, tries, attempts, connRes, stream, created>>
refVars == <<handles, owned, workerStrong>>
wireVars == <<wire, nwrites, done>>
resVars == <<newResult, reconnectResult, prev, calls, spawned>>

Init ==
    /\ pc = [t \in Threads |-> IF t = Caller THEN "idle" ELSE "none"]
    /\ op = "none"
    /\ stub = NoStub
    /\ tries = 0
    /\ attempts = 0
    /\ connRes = "none"
    /\ stream = 0
    /\ created = 0
    /\ control_channel = 0
    /\ lock = "free"
    /\ wire = [tr \in Transports |-> <<>>]
    /\ nwrites = [tr \in Transports |-> 0]
    /\ done = [tr \in Transports |-> <<>>]
    /\ open = {}
    /\ secured = {}
    /\ handles = 0
    /\ owned = FALSE
    /\ workerStrong = FALSE
    /\ send = [t \in Threads |-> NoSend]
    /\ newResult = <<"none">>
    /\ reconnectResult = <<"none">>
    /\ prev = 0
    /\ calls = <<>>
    /\ spawned = 0
    /\ ncalls = [t \in Threads |-> 0]
    /\ poisoned = FALSE
    /\ after = NoneAfter

\* ------------------------------------------------------------------ connect
\* What the stub transport answers to handshake attempt number i.
HandshakeOutcome(i) ==
    IF stub.hard = i THEN "Failure"
    ELSE IF i <= stub.k THEN "Interrupted"
    ELSE "Ok"

\* Client::new is called (line 67); it calls Client::connect (line 68).
CallNew ==
    /\ pc[Caller] = "idle"
    /\ op = "none"
    /\ newResult = <<"none">>
    /\ \E k \in 0..MaxInterrupts, h \in 0..MaxHardAt : stub' = [k |-> k, hard |-> h]
    /\ op' = "new"
    /\ pc' = [pc EXCEPT ![Caller] = "context"]
    /\ tries' = 0
    /\ attempts' = 0
    /\ connRes' = "none"
    /\ calls' = Append(calls, "connect")
    /\ UNCHANGED <<stream, created, control_channel, lock, wireVars, open, secured,
                   refVars, send, newResult, reconnectResult, prev, spawned, ncalls, poisoned, after>>

\* lines 94-100: SslContext::new
Connect_Context ==
    /\ pc[Caller] = "context"
    /\ \E ok \in BOOLEAN :
         IF ok
         THEN /\ pc' = [pc EXCEPT ![Caller] = "tcp"]
              /\ connRes' = connRes
         ELSE /\ pc' = [pc EXCEPT ![Caller] = "connect_ret"]
              /\ connRes' = "Ssl"
    /\ UNCHANGED <<op, stub, tries, attempts, stream, created, control_channel, lock,
                   wireVars, open, secured, refVars, send, resVars, ncalls, poisoned, after>>

\* lines 102-106: TcpStream::connect
Connect_Tcp ==
    /\ pc[Caller] = "tcp"
    /\ \/ /\ created < MaxTransports
          /\ created' = created + 1
          /\ stream' = created + 1
          /\ open' = open \cup {created + 1}
          /\ pc' = [pc EXCEPT ![Caller] = "ssl_connect"]
          /\ connRes' = connRes
       \/ /\ connRes' = "TcpStream"
          /\ pc' = [pc EXCEPT ![Caller] = "connect_ret"]
          /\ UNCHANGED <<created, stream, open>>
    /\ UNCHANGED <<op, stub, tries, attempts, control_channel, lock, wireVars,
                   secured, refVars, send, resVars, ncalls, poisoned, after>>

\* mutant: `tries` starts at 0 instead of 1
HandshakeTriesFromZero(first) ==
    LET outcome == HandshakeOutcome(attempts + 1) IN
    /\ attempts' = attempts + 1
    /\ CASE outcome = "Ok" ->
              /\ connRes' = "Ok"
              /\ secured' = secured \cup {stream}
              /\ pc' = [pc EXCEPT ![Caller] = "connect_ret"]
              /\ UNCHANGED <<tries, stream, open>>
         [] outcome = "Failure" ->
              /\ connRes' = "Ssl"
              /\ open' = open \ {stream}
              /\ stream' = 0
              /\ pc' = [pc EXCEPT ![Caller] = "connect_ret"]
              /\ UNCHANGED <<tries, secured>>
         [] outcome = "Interrupted" ->
              /\ tries' = IF first THEN 0 ELSE tries + 1
              /\ pc' = [pc EXCEPT ![Caller] = "handshake_loop"]
              /\ UNCHANGED <<connRes, stream, open, secured>>

\* mutant: a hard failure is retried like an interruption
HandshakeRetriesFailure(first) ==
    LET outcome == HandshakeOutcome(attempts + 1) IN
    /\ attempts' = attempts + 1
    /\ CASE outcome = "Ok" ->
              /\ connRes' = "Ok"
              /\ secured' = secured \cup {stream}
              /\ pc' = [pc EXCEPT ![Caller] = "connect_ret"]
              /\ UNCHANGED <<tries, stream, open>>
         [] outcome \in {"Failure", "Interrupted"} ->
              /\ tries' = IF first THEN 1 ELSE tries + 1
              /\ pc' = [pc EXCEPT ![Caller] = "handshake_loop"]
              /\ UNCHANGED <<connRes, stream, open, secured>>

\* One handshake call on `stream` and the match on its result
\* (lines 107-113 for the first, lines 115-125 for a retry).
Handshake(first) ==
    LET outcome == HandshakeOutcome(attempts + 1) IN
    /\ attempts' = attempts + 1
    /\ CASE outcome = "Ok" ->
              /\ connRes' = "Ok"
              /\ secured' = secured \cup {stream}
              /\ pc' = [pc EXCEPT ![Caller] = "connect_ret"]
              /\ UNCHANGED <<tries, stream, open>>
         [] outcome = "Failure" ->
              /\ connRes' = "Ssl"
              /\ open' = open \ {stream}
              /\ stream' = 0
              /\ pc' = [pc EXCEPT ![Caller] = "connect_ret"]
              /\ UNCHANGED <<tries, secured>>
         [] outcome = "Interrupted" ->
              /\ tries' = IF first THEN 1 ELSE tries + 1
              /\ pc' = [pc EXCEPT ![Caller] = "handshake_loop"]
              /\ UNCHANGED <<connRes, stream, open, secured>>

\* lines 107-113: SslStream::connect, the first handshake attempt
Connect_SslConnect ==
    /\ pc[Caller] = "ssl_connect"
    /\ Handshake(TRUE)
    /\ UNCHANGED <<op, stub, created, control_channel, lock, wireVars, refVars,
                   send, resVars, ncalls, poisoned, after>>

\* mutant: the loop runs while tries <= SSL_HANDSHAKE_RETRIES
Connect_RetryOffByOne ==
    /\ pc[Caller] = "handshake_loop"
    /\ tries <= SSL_HANDSHAKE_RETRIES
    /\ Handshake(FALSE)
    /\ UNCHANGED <<op, stub, created, control_channel, lock, wireVars, refVars,
                   send, resVars, ncalls, poisoned, after>>

\* lines 114-126: one iteration of the retry loop
Connect_Retry ==
    /\ pc[Caller] = "handshake_loop"
    /\ tries < SSL_HANDSHAKE_RETRIES
    /\ Handshake(FALSE)
    /\ UNCHANGED <<op, stub, created, control_channel, lock, wireVars, refVars,
                   send, resVars, ncalls, poisoned, after>>

\* mutant: after the last retry the stream is handed back although its
\* handshake never completed
Connect_ExceededReturnsStream ==
    /\ pc[Caller] = "handshake_loop"
    /\ ~(tries < SSL_HANDSHAKE_RETRIES)
    /\ connRes' = "Ok"
    /\ pc' = [pc EXCEPT ![Caller] = "connect_ret"]
    /\ UNCHANGED <<op, stub, tries, attempts, stream, created, control_channel, lock,
                   wireVars, open, secured, refVars, send, resVars, ncalls, poisoned, after>>

\* line 127: the loop ends without a completed handshake
Connect_Exceeded ==
    /\ pc[Caller] = "handshake_loop"
    /\ ~(tries < SSL_HANDSHAKE_RETRIES)
    /\ connRes' = "ExceededHandshakeRetries"
    /\ open' = open \ {stream}
    /\ stream' = 0
    /\ pc' = [pc EXCEPT ![Caller] = "connect_ret"]
    /\ UNCHANGED <<op, stub, tries, attempts, created, control_channel, lock,
                   wireVars, secured, refVars, send, resVars, ncalls, poisoned, after>>

\* ------------------------------------------------------------- send_message
\* Dropping the Client drops the Mutex and the SslStream inside it.
DropClient ==
    /\ open' = open \ {control_channel}
    /\ control_channel' = 0

\* A call send_message(id, payload) by thread t begins.
StartSend(t, id, payload) ==
    send' = [send EXCEPT ![t] = [pc |-> "start", id |-> id, payload |-> payload,
                                 packet |-> <<>>, n |-> 0, tr |-> 0, res |-> "none"]]

\* lines 164-176: build the packet, or panic!() on a payload over u32::max_value()
Send_Build(t) ==
    /\ send[t].pc = "start"
    /\ IF PayloadTooLarge(send[t].payload)
       THEN send' = [send EXCEPT ![t].pc = "panicked"]
       ELSE send' = [send EXCEPT ![t].pc = "lock",
                                 ![t].packet = Packet(send[t].id, send[t].payload)]
    /\ UNCHANGED <<pc, op, connVars, control_channel, lock, wireVars, open, secured,
                   refVars, resVars, ncalls, poisoned, after>>

\* mutant: the write goes ahead without waiting for the lock
Send_LockNoWait(t) ==
    /\ send[t].pc = "lock"
    /\ lock' = t
    /\ send' = [send EXCEPT ![t].pc = "write", ![t].tr = control_channel]
    /\ UNCHANGED <<pc, op, connVars, control_channel, wireVars, open, secured,
                   refVars, resVars, ncalls, poisoned, after>>

\* mutant: a poisoned lock is entered all the same (the guard is taken out of
\* the PoisonError)
Send_LockIgnoresPoison(t) ==
    /\ send[t].pc = "lock"
    /\ lock = "free"
    /\ lock' = t
    /\ send' = [send EXCEPT ![t].pc = "write", ![t].tr = control_channel]
    /\ UNCHANGED <<pc, op, connVars, control_channel, wireVars, open, secured,
                   refVars, resVars, ncalls, poisoned, after>>

\* mutant: the transport is looked up once and kept across calls
Send_LockCached(t) ==
    /\ send[t].pc = "lock"
    /\ lock = "free"
    /\ lock' = t
    /\ send' = [send EXCEPT ![t].pc = "write", ![t].tr = CHOOSE tr \in Transports : \A o \in Transports : tr <= o]
    /\ UNCHANGED <<pc, op, connVars, control_channel, wireVars, open, secured,
                   refVars, resVars, ncalls, poisoned, after>>

\* lines 177-179: self.control_channel.lock().unwrap(): the guard of the session's
\* current Mutex, or a panic when the Mutex is poisoned
Send_Lock(t) ==
    /\ send[t].pc = "lock"
    /\ lock = "free"
    /\ IF poisoned
       THEN /\ send' = [send EXCEPT ![t].pc = "panicked"]
            /\ lock' = lock
       ELSE /\ send' = [send EXCEPT ![t].pc = "write", ![t].tr = control_channel]
            /\ lock' = t
    /\ UNCHANGED <<pc, op, connVars, control_channel, wireVars, open, secured,
                   refVars, resVars, ncalls, poisoned, after>>

\* line 180: ssl_write fails (before anything of the packet is written)
Send_WriteErr(t) ==
    /\ send[t].pc = "write"
    /\ send[t].n = 0
    /\ send' = [send EXCEPT ![t].pc = "unlock", ![t].res = "Ssl"]
    /\ UNCHANGED <<pc, op, connVars, control_channel, lock, wireVars, open, secured,
                   refVars, resVars, ncalls, poisoned, after>>

\* line 180: ssl_write puts the next item of the packet on the transport; after
\* the last one it returns Ok
Send_WriteItem(t) ==
    LET s == send[t]
        tr == s.tr
        last == s.n + 1 = Len(s.packet) IN
    /\ s.pc = "write"
    /\ nwrites[tr] < MaxWrites
    /\ wire' = [wire EXCEPT ![tr] = Append(@, s.packet[s.n + 1])]
    /\ IF last
       THEN /\ send' = [send EXCEPT ![t].pc = "unlock", ![t].n = s.n + 1, ![t].res = "Ok"]
            /\ nwrites' = [nwrites EXCEPT ![tr] = @ + 1]
            /\ done' = [done EXCEPT ![tr] = Append(@, s.packet)]
       ELSE /\ send' = [send EXCEPT ![t].n = s.n + 1]
            /\ UNCHANGED <<nwrites, done>>
    /\ after' = IF t = Worker /\ s.n = 0 /\ Released
                THEN [after EXCEPT !.pings = Min(@ + 1, MaxAfter)]
                ELSE after
    /\ UNCHANGED <<pc, op, connVars, control_channel, lock, open, secured,
                   refVars, resVars, ncalls, poisoned>>

\* line 180, under the guard of line 179: the thread holding the guard panics
\* inside ssl_write; unwinding drops the guard, which poisons the Mutex
Send_WritePanic(t) ==
    /\ send[t].pc = "write"
    /\ lock = t
    /\ send' = [send EXCEPT ![t].pc = "panicked"]
    /\ lock' = "free"
    /\ poisoned' = TRUE
    /\ UNCHANGED <<pc, op, connVars, control_channel, wireVars, open, secured,
                   refVars, resVars, ncalls, after>>

\* lines 180-184: the result is built and the guard `channel` is dropped
Send_Return(t) ==
    /\ send[t].pc = "unlock"
    /\ lock' = IF lock = t THEN "free" ELSE lock
    /\ send' = [send EXCEPT ![t].pc = "done"]
    /\ UNCHANGED <<pc, op, connVars, control_channel, wireVars, open, secured,
                   refVars, resVars, ncalls, poisoned, after>>

\* ------------------------------------------- version_exchange, authenticate, ping
\* lines 133-144
VersionExchange ==
    /\ pc[Caller] = "version"
    /\ \E p \in VersionPayloads : StartSend(Caller, VersionId, p)
    /\ pc' = [pc EXCEPT ![Caller] = "version_sent"]
    /\ calls' = IF op = "new" THEN Append(calls, "version_exchange") ELSE calls
    /\ UNCHANGED <<op, connVars, control_channel, lock, wireVars, open, secured,
                   refVars, newResult, reconnectResult, prev, spawned, ncalls, poisoned, after>>

\* lines 147-154
Authenticate ==
    /\ pc[Caller] = "authenticate"
    /\ \E p \in AuthPayloads : StartSend(Caller, AuthenticateId, p)
    /\ pc' = [pc EXCEPT ![Caller] = "authenticate_sent"]
    /\ calls' = IF op = "new" THEN Append(calls, "authenticate") ELSE calls
    /\ UNCHANGED <<op, connVars, control_channel, lock, wireVars, open, secured,
                   refVars, newResult, reconnectResult, prev, spawned, ncalls, poisoned, after>>

\* lines 156-160
Ping ==
    /\ pc[Worker] = "ping"
    /\ StartSend(Worker, PingId, PingPayload)
    /\ pc' = [pc EXCEPT ![Worker] = "ping_sent"]
    /\ UNCHANGED <<op, connVars, control_channel, lock, wireVars, open, secured,
                   refVars, resVars, ncalls, poisoned, after>>

\* --------------------------------------------------------------- Client::new
\* lines 68-69: try!(connect), then Arc::new(Client { .. })
New_Client ==
    /\ pc[Caller] = "connect_ret"
    /\ op = "new"
    /\ IF connRes = "Ok"
       THEN /\ control_channel' = stream
            /\ lock' = "free"
            /\ poisoned' = FALSE
            /\ handles' = 1
            /\ pc' = [pc EXCEPT ![Caller] = "version"]
            /\ UNCHANGED <<op, newResult>>
       ELSE /\ newResult' = <<"ConnectionError", connRes>>
            /\ op' = "none"
            /\ pc' = [pc EXCEPT ![Caller] = "idle"]
            /\ UNCHANGED <<control_channel, lock, poisoned, handles>>
    /\ stream' = 0
    /\ stub' = NoStub
    /\ tries' = 0
    /\ attempts' = 0
    /\ connRes' = "none"
    /\ UNCHANGED <<created, wireVars, open, secured, owned, workerStrong, send,
                   reconnectResult, prev, calls, spawned, ncalls, after>>

\* mutant: new ignores a send's Err and goes on
NewTryIgnoresErr(from, to) ==
    /\ pc[Caller] = from
    /\ op = "new"
    /\ send[Caller].pc = "done"
    /\ send' = [send EXCEPT ![Caller] = NoSend]
    /\ pc' = [pc EXCEPT ![Caller] = to]
    /\ UNCHANGED <<op, newResult, handles, open, control_channel>>
    /\ UNCHANGED <<connVars, lock, wireVars, secured, owned, workerStrong,
                   reconnectResult, prev, calls, spawned, ncalls, poisoned, after>>

\* mutant: new returns the Err while a handle to the session stays behind
NewTryLeaks(from, to) ==
    /\ pc[Caller] = from
    /\ op = "new"
    /\ send[Caller].pc = "done"
    /\ send' = [send EXCEPT ![Caller] = NoSend]
    /\ IF send[Caller].res = "Ok"
       THEN /\ pc' = [pc EXCEPT ![Caller] = to]
            /\ UNCHANGED <<op, newResult>>
       ELSE /\ newResult' = <<"SendError", send[Caller].res>>
            /\ op' = "none"
            /\ pc' = [pc EXCEPT ![Caller] = "idle"]
    /\ UNCHANGED <<connVars, control_channel, lock, wireVars, open, secured, refVars,
                   reconnectResult, prev, calls, spawned, ncalls, poisoned, after>>

\* try!(..) in new on a send's result: an Err returns it, dropping `client`
NewTry(from, to) ==
    /\ pc[Caller] = from
    /\ op = "new"
    /\ send[Caller].pc = "done"
    /\ send' = [send EXCEPT ![Caller] = NoSend]
    /\ IF send[Caller].res = "Ok"
       THEN /\ pc' = [pc EXCEPT ![Caller] = to]
            /\ UNCHANGED <<op, newResult, handles, open, control_channel>>
       ELSE /\ newResult' = <<"SendError", send[Caller].res>>
            /\ op' = "none"
            /\ pc' = [pc EXCEPT ![Caller] = "idle"]
            /\ handles' = 0
            /\ DropClient
    /\ UNCHANGED <<connVars, lock, wireVars, secured, owned, workerStrong,
                   reconnectResult, prev, calls, spawned, ncalls, poisoned, after>>

\* line 70
New_AfterVersion == NewTry("version_sent", "authenticate")

\* line 71
New_AfterAuth == NewTry("authenticate_sent", "spawn")

\* lines 72-82: downgrade, spawn the keep-alive thread, return Ok(client)
New_Spawn ==
    /\ pc[Caller] = "spawn"
    /\ op = "new"
    /\ pc' = [pc EXCEPT ![Caller] = "idle", ![Worker] = "upgrade"]
    /\ spawned' = spawned + 1
    /\ calls' = Append(calls, "spawn")
    /\ newResult' = <<"Ok">>
    /\ op' = "none"
    /\ UNCHANGED <<connVars, control_channel, lock, wireVars, open, secured, refVars,
                   send, reconnectResult, prev, ncalls, poisoned, after>>

\* A panic unwinds the caller's stack: what the caller holds is dropped.
Unwind ==
    /\ send[Caller].pc = "panicked"
    /\ pc[Caller] # "panicked"
    /\ pc' = [pc EXCEPT ![Caller] = "panicked"]
    /\ handles' = 0
    /\ owned' = FALSE
    /\ IF workerStrong THEN UNCHANGED <<open, control_channel>> ELSE DropClient
    /\ UNCHANGED <<op, connVars, lock, wireVars, secured, workerStrong, send,
                   resVars, ncalls, poisoned, after>>

\* ------------------------------------------------------ the keep-alive thread
\* mutant: a failed upgrade is tried again instead of ending the loop
Worker_UpgradeSpins ==
    /\ pc[Worker] = "upgrade"
    /\ IF handles > 0
       THEN /\ workerStrong' = TRUE
            /\ pc' = [pc EXCEPT ![Worker] = "sleep"]
       ELSE /\ workerStrong' = FALSE
            /\ pc' = pc
    /\ UNCHANGED <<op, connVars, control_channel, lock, wireVars, open, secured,
                   handles, owned, send, resVars, ncalls, poisoned, after>>

\* line 74: ping_client.upgrade()
Worker_Upgrade ==
    /\ pc[Worker] = "upgrade"
    /\ IF handles > 0
       THEN /\ workerStrong' = TRUE
            /\ pc' = [pc EXCEPT ![Worker] = "sleep"]
       ELSE /\ workerStrong' = FALSE
            /\ pc' = [pc EXCEPT ![Worker] = "exited"]
    /\ UNCHANGED <<op, connVars, control_channel, lock, wireVars, open, secured,
                   handles, owned, send, resVars, ncalls, poisoned, after>>

\* line 75: thread::sleep returns
Worker_Sleep ==
    /\ pc[Worker] = "sleep"
    /\ pc' = [pc EXCEPT ![Worker] = "ping"]
    /\ after' = IF Released THEN [after EXCEPT !.sleeps = Min(@ + 1, MaxAfter)]
                ELSE after
    /\ UNCHANGED <<op, connVars, control_channel, lock, wireVars, open, secured,
                   refVars, send, resVars, ncalls, poisoned>>

\* mutant: a ping that returned an error is sent again at once
Worker_EndIterationRetries ==
    /\ pc[Worker] = "ping_sent"
    /\ send[Worker].pc = "done"
    /\ send' = [send EXCEPT ![Worker] = NoSend]
    /\ IF send[Worker].res = "Ok"
       THEN /\ workerStrong' = FALSE
            /\ pc' = [pc EXCEPT ![Worker] = "upgrade"]
            /\ IF handles = 0 THEN DropClient ELSE UNCHANGED <<open, control_channel>>
       ELSE /\ pc' = [pc EXCEPT ![Worker] = "ping"]
            /\ UNCHANGED <<workerStrong, open, control_channel>>
    /\ UNCHANGED <<op, connVars, lock, wireVars, secured, handles, owned,
                   resVars, ncalls, poisoned, after>>

\* mutant: a ping that returned an error makes the thread put the session on
\* a fresh transport
Worker_EndIterationReconnects ==
    /\ pc[Worker] = "ping_sent"
    /\ send[Worker].pc = "done"
    /\ send' = [send EXCEPT ![Worker] = NoSend]
    /\ workerStrong' = FALSE
    /\ pc' = [pc EXCEPT ![Worker] = "upgrade"]
    /\ IF send[Worker].res # "Ok" /\ handles > 0 /\ created < MaxTransports
       THEN /\ created' = created + 1
            /\ control_channel' = created + 1
            /\ open' = (open \ {control_channel}) \cup {created + 1}
            /\ secured' = secured \cup {created + 1}
       ELSE /\ IF handles = 0 THEN DropClient ELSE UNCHANGED <<open, control_channel>>
            /\ UNCHANGED <<created, secured>>
    /\ UNCHANGED <<op, stub, tries, attempts, connRes, stream, lock, wireVars,
                   handles, owned, resVars, ncalls, poisoned, after>>

\* mutant: the thread keeps its upgraded Arc and goes straight to the next sleep
Worker_EndIterationKeeps ==
    /\ pc[Worker] = "ping_sent"
    /\ send[Worker].pc = "done"
    /\ send' = [send EXCEPT ![Worker] = NoSend]
    /\ pc' = [pc EXCEPT ![Worker] = "sleep"]
    /\ UNCHANGED <<op, connVars, control_channel, lock, wireVars, open, secured,
                   refVars, resVars, ncalls, poisoned, after>>

\* lines 79-80: the ping's result is discarded; the iteration's `client` is dropped
Worker_EndIteration ==
    /\ pc[Worker] = "ping_sent"
    /\ send[Worker].pc = "done"
    /\ send' = [send EXCEPT ![Worker] = NoSend]
    /\ workerStrong' = FALSE
    /\ pc' = [pc EXCEPT ![Worker] = "upgrade"]
    /\ IF handles = 0 THEN DropClient ELSE UNCHANGED <<open, control_channel>>
    /\ UNCHANGED <<op, connVars, lock, wireVars, secured, handles, owned,
                   resVars, ncalls, poisoned, after>>

\* ------------------------------------------------- the caller's Arc<Client>
CallerIdle == pc[Caller] = "idle" /\ op = "none"

\* client.clone()
Caller_Clone ==
    /\ CallerIdle
    /\ handles > 0
    /\ handles < MaxHandles
    /\ handles' = handles + 1
    /\ UNCHANGED <<pc, op, connVars, control_channel, lock, wireVars, open, secured,
                   owned, workerStrong, send, resVars, ncalls, poisoned, after>>

\* drop(client): the Client goes with the last strong handle
Caller_Drop ==
    /\ CallerIdle
    /\ handles > 0
    /\ handles' = handles - 1
    /\ IF handles = 1 /\ ~workerStrong
       THEN DropClient
       ELSE UNCHANGED <<open, control_channel>>
    /\ UNCHANGED <<pc, op, connVars, lock, wireVars, secured, owned, workerStrong,
                   send, resVars, ncalls, poisoned, after>>

\* Arc::try_unwrap(client): the only way to the `&mut Client` reconnect needs
\* (Arc::get_mut fails while the keep-alive thread's Weak exists)
Caller_TryUnwrap ==
    /\ CallerIdle
    /\ handles = 1
    /\ ~workerStrong
    /\ handles' = 0
    /\ owned' = TRUE
    /\ UNCHANGED <<pc, op, connVars, control_channel, lock, wireVars, open, secured,
                   workerStrong, send, resVars, ncalls, poisoned, after>>

\* the Client held by value is dropped
Caller_DropOwned ==
    /\ CallerIdle
    /\ owned
    /\ owned' = FALSE
    /\ DropClient
    /\ UNCHANGED <<pc, op, connVars, lock, wireVars, secured, handles, workerStrong,
                   send, resVars, ncalls, poisoned, after>>

\* --------------------------------------------------------- Client::reconnect
\* line 85: reconnect(&mut self, ..) is called; it calls Client::connect (line 86)
CallReconnect ==
    /\ CallerIdle
    /\ owned
    /\ \E k \in 0..MaxInterrupts, h \in 0..MaxHardAt : stub' = [k |-> k, hard |-> h]
    /\ op' = "reconnect"
    /\ prev' = control_channel
    /\ reconnectResult' = <<"none">>
    /\ pc' = [pc EXCEPT ![Caller] = "context"]
    /\ tries' = 0
    /\ attempts' = 0
    /\ connRes' = "none"
    /\ UNCHANGED <<stream, created, control_channel, lock, wireVars, open, secured,
                   refVars, send, newResult, calls, spawned, ncalls, poisoned, after>>

\* mutant: reconnect goes from the swap straight to authenticate
Reconnect_AssignSkipsVersion ==
    /\ pc[Caller] = "connect_ret"
    /\ op = "reconnect"
    /\ IF connRes = "Ok"
       THEN /\ control_channel' = stream
            /\ open' = open \ {control_channel}
            /\ lock' = "free"
            /\ poisoned' = FALSE
            /\ pc' = [pc EXCEPT ![Caller] = "authenticate"]
            /\ UNCHANGED <<op, reconnectResult>>
       ELSE /\ reconnectResult' = <<"ConnectionError", connRes>>
            /\ op' = "none"
            /\ pc' = [pc EXCEPT ![Caller] = "idle"]
            /\ UNCHANGED <<control_channel, open, lock, poisoned>>
    /\ stream' = 0
    /\ stub' = NoStub
    /\ tries' = 0
    /\ attempts' = 0
    /\ connRes' = "none"
    /\ UNCHANGED <<created, wireVars, secured, refVars, send, newResult, prev,
                   calls, spawned, ncalls, after>>

\* mutant: the old transport is given up before connect's result is looked at
Reconnect_AssignDropsOld ==
    /\ pc[Caller] = "connect_ret"
    /\ op = "reconnect"
    /\ open' = open \ {control_channel}
    /\ IF connRes = "Ok"
       THEN /\ control_channel' = stream
            /\ lock' = "free"
            /\ poisoned' = FALSE
            /\ pc' = [pc EXCEPT ![Caller] = "version"]
            /\ UNCHANGED <<op, reconnectResult>>
       ELSE /\ reconnectResult' = <<"ConnectionError", connRes>>
            /\ control_channel' = 0
            /\ op' = "none"
            /\ pc' = [pc EXCEPT ![Caller] = "idle"]
            /\ UNCHANGED <<lock, poisoned>>
    /\ stream' = 0
    /\ stub' = NoStub
    /\ tries' = 0
    /\ attempts' = 0
    /\ connRes' = "none"
    /\ UNCHANGED <<created, wireVars, secured, refVars, send, newResult, prev,
                   calls, spawned, ncalls, after>>

\* lines 86-87: try!(connect), then self.control_channel = Mutex::new(..)
Reconnect_Assign ==
    /\ pc[Caller] = "connect_ret"
    /\ op = "reconnect"
    /\ IF connRes = "Ok"
       THEN /\ control_channel' = stream
            /\ open' = open \ {control_channel}
            /\ lock' = "free"
            /\ poisoned' = FALSE
            /\ pc' = [pc EXCEPT ![Caller] = "version"]
            /\ UNCHANGED <<op, reconnectResult>>
       ELSE /\ reconnectResult' = <<"ConnectionError", connRes>>
            /\ op' = "none"
            /\ pc' = [pc EXCEPT ![Caller] = "idle"]
            /\ UNCHANGED <<control_channel, open, lock, poisoned>>
    /\ stream' = 0
    /\ stub' = NoStub
    /\ tries' = 0
    /\ attempts' = 0
    /\ connRes' = "none"
    /\ UNCHANGED <<created, wireVars, secured, refVars, send, newResult, prev,
                   calls, spawned, ncalls, after>>

\* try!(..) in reconnect on a send's result
ReconnectTry(from, to) ==
    /\ pc[Caller] = from
    /\ op = "reconnect"
    /\ send[Caller].pc = "done"
    /\ send' = [send EXCEPT ![Caller] = NoSend]
    /\ IF send[Caller].res = "Ok" /\ to # "idle"
       THEN /\ pc' = [pc EXCEPT ![Caller] = to]
            /\ UNCHANGED <<op, reconnectResult>>
       ELSE /\ reconnectResult' = IF send[Caller].res = "Ok" THEN <<"Ok">>
                                  ELSE <<"SendError", send[Caller].res>>
            /\ op' = "none"
            /\ pc' = [pc EXCEPT ![Caller] = "idle"]
    /\ UNCHANGED <<connVars, control_channel, lock, wireVars, open, secured, refVars,
                   newResult, prev, calls, spawned, ncalls, poisoned, after>>

\* line 88
Reconnect_AfterVersion == ReconnectTry("version_sent", "authenticate")

\* lines 89-90
Reconnect_AfterAuth == ReconnectTry("authenticate_sent", "idle")

Next ==
    \/ CallNew
    \/ Connect_Context
    \/ Connect_Tcp
    \/ Connect_SslConnect
    \/ Connect_Retry
    \/ Connect_Exceeded
    \/ New_Client
    \/ VersionExchange
    \/ Authenticate
    \/ New_AfterVersion
    \/ New_AfterAuth
    \/ New_Spawn
    \/ Unwind
    \/ Ping
    \/ Worker_Upgrade
    \/ Worker_Sleep
    \/ Worker_EndIteration
    \/ Caller_Clone
    \/ Caller_Drop
    \/ Caller_TryUnwrap
    \/ Caller_DropOwned
    \/ CallReconnect
    \/ Reconnect_Assign
    \/ Reconnect_AfterVersion
    \/ Reconnect_AfterAuth
    \/ \E t \in {Caller, Worker} :
         \/ Send_Build(t)
         \/ Send_Lock(t)
         \/ Send_WriteErr(t)
         \/ Send_WriteItem(t)
         \/ Send_Return(t)

Spec == Init /\ [][Next]_vars

\* ---------------------------------------------------------------- SpecLive
\* The keep-alive thread is a spawned OS thread (line 73): the scheduler runs
\* it, thread::sleep returns after its interval, and the uncontended lock and
\* the ssl_write of its ping return.
WorkerNext ==
    \/ Worker_Upgrade
    \/ Worker_Sleep
    \/ Ping
    \/ Worker_EndIteration
    \/ Send_Build(Worker)
    \/ Send_Lock(Worker)
    \/ Send_WriteErr(Worker)
    \/ Send_WriteItem(Worker)
    \/ Send_Return(Worker)

SpecLive == Init /\ [][Next]_vars /\ WF_vars(WorkerNext)

\* ---------------------------------------------------------------- SpecSend
\* send_message under concurrent callers: NumSenders threads share one Client
\* (send_message takes &self, and Client is Sync through its Mutex) and each
\* calls send_message up to MaxCalls times.
InitSend ==
    /\ pc = [t \in Threads |-> IF t \in Senders THEN "ready" ELSE "none"]
    /\ op = "none"
    /\ stub = NoStub
    /\ tries = 0
    /\ attempts = 0
    /\ connRes = "none"
    /\ stream = 0
    /\ created = 1
    /\ control_channel = 1
    /\ lock = "free"
    /\ wire = [tr \in Transports |-> <<>>]
    /\ nwrites = [tr \in Transports |-> 0]
    /\ done = [tr \in Transports |-> <<>>]
    /\ open = {1}
    /\ secured = {1}
    /\ handles = 1
    /\ owned = FALSE
    /\ workerStrong = FALSE
    /\ send = [t \in Threads |-> NoSend]
    /\ newResult = <<"none">>
    /\ reconnectResult = <<"none">>
    /\ prev = 0
    /\ calls = <<>>
    /\ spawned = 0
    /\ ncalls = [t \in Threads |-> 0]
    /\ poisoned = FALSE
    /\ after = NoneAfter

\* line 163: thread s calls send_message(id, message)
SenderCall(s, messages) ==
    /\ pc[s] = "ready"
    /\ ncalls[s] < MaxCalls
    /\ \E m \in messages : StartSend(s, m[1], m[2])
    /\ pc' = [pc EXCEPT ![s] = "sending"]
    /\ ncalls' = [ncalls EXCEPT ![s] = @ + 1]
    /\ UNCHANGED <<op, connVars, control_channel, lock, wireVars, open, secured,
                   refVars, resVars, poisoned, after>>

Sender_Call(s) == SenderCall(s, SendMessages)

\* send_message has returned to thread s
Sender_Return(s) ==
    /\ pc[s] = "sending"
    /\ send[s].pc = "done"
    /\ send' = [send EXCEPT ![s] = NoSend]
    /\ pc' = [pc EXCEPT ![s] = "ready"]
    /\ UNCHANGED <<op, connVars, control_channel, lock, wireVars, open, secured,
                   refVars, resVars, ncalls, poisoned, after>>

\* the panic of line 171 ends thread s
Sender_Unwind(s) ==
    /\ pc[s] = "sending"
    /\ send[s].pc = "panicked"
    /\ pc' = [pc EXCEPT ![s] = "panicked"]
    /\ UNCHANGED <<op, connVars, control_channel, lock, wireVars, open, secured,
                   refVars, send, resVars, ncalls, poisoned, after>>

NextSend ==
    \E s \in Senders :
      \/ Sender_Call(s)
      \/ Sender_Return(s)
      \/ Sender_Unwind(s)
      \/ Send_Build(s)
      \/ Send_Lock(s)
      \/ Send_WriteErr(s)
      \/ Send_WriteItem(s)
      \/ Send_Return(s)

SpecSend == InitSend /\ [][NextSend]_vars

\* -------------------------------------------------------------- SpecPoison
\* The threads of SpecSend, where a thread may also panic inside ssl_write
\* while it holds the guard.
PoisonMessages == {<<PingId, PingPayload>>}

Poison_Call(s) == SenderCall(s, PoisonMessages)

NextPoison ==
    \E s \in Senders :
      \/ Poison_Call(s)
      \/ Sender_Return(s)
      \/ Sender_Unwind(s)
      \/ Send_Build(s)
      \/ Send_Lock(s)
      \/ Send_WriteErr(s)
      \/ Send_WriteItem(s)
      \/ Send_WritePanic(s)
      \/ Send_Return(s)

SpecPoison == InitSend /\ [][NextPoison]_vars

\* --------------------------------------------------------------- SpecFrame
\* send_message on every input: the program's own sends (Init, Next) and the
\* sends of one thread that draws its id from FrameIds and its payload from
\* FramePayloads (InitSend, NextFrame).
FrameThread == SenderNames[1]

Frame_Call == SenderCall(FrameThread, FrameIds \X FramePayloads)

NextFrame ==
    \/ Frame_Call
    \/ Sender_Return(FrameThread)
    \/ Sender_Unwind(FrameThread)
    \/ Send_Build(FrameThread)
    \/ Send_Lock(FrameThread)
    \/ Send_WriteErr(FrameThread)
    \/ Send_WriteItem(FrameThread)
    \/ Send_Return(FrameThread)

SpecFrame == (Init \/ InitSend) /\ [][Next \/ NextFrame]_vars

\* ================================================================== claims

RECURSIVE Flatten(_)
Flatten(ss) == IF ss = <<>> THEN <<>> ELSE Head(ss) \o Flatten(Tail(ss))

\* the message id a packet starts with
FrameId(packet) == packet[1] * 256 + packet[2]

IsError(r) == r[1] \in {"ConnectionError", "SendError"}

\* C1: a reconnect that has returned an error leaves the session on the
\* transport it held before the call, and that transport is still open: the
\* swap is made only by a reconnect whose three steps all succeeded.
C1_ReconnectAtomic ==
    (owned /\ IsError(reconnectResult)) => (control_channel = prev /\ prev \in open)

\* C2: once the caller has released the session, the keep-alive thread's wake
\* from its sleep does not lead on to a ping, and it begins writing no Ping frame.
C2_NoPingAfterRelease ==
    [][Released =>
         /\ pc[Worker] = "sleep" => pc'[Worker] \in {"sleep", "exited"}
         /\ ~(send[Worker].pc = "write" /\ send[Worker].n = 0 /\ send'[Worker].n = 1)]_vars

\* C3: send_message on a payload longer than 2^32 - 1 returns the
\* MessageTooLarge error: the thread does not panic, nothing is written and the
\* lock is not left held.
C3_TooLargeIsAnError ==
    \A t \in Threads :
        (PayloadTooLarge(send[t].payload) /\ send[t].pc \notin {"idle", "start"}) =>
            /\ send[t].pc = "done"
            /\ send[t].res = "MessageTooLarge"
            /\ send[t].n = 0
            /\ lock # t

\* C4: when the transport interrupts exactly k handshakes and never fails hard,
\* connect succeeds iff k < 3 and has issued min(k + 1, 3) handshake attempts.
C4_HandshakeRetry ==
    (pc[Caller] = "connect_ret" /\ stub.hard = 0 /\ attempts > 0) =>
        /\ connRes = "Ok" <=> stub.k < 3
        /\ connRes \in {"Ok", "ExceededHandshakeRetries"}
        /\ attempts = Min(stub.k + 1, 3)

C4_Witness ==
    /\ pc[Caller] = "connect_ret"
    /\ stub = [k |-> 2, hard |-> 0]
    /\ connRes = "Ok"
    /\ attempts = 3

\* C5: connect never issues more than 3 handshake attempts, and when every
\* attempt is interrupted it returns ExceededHandshakeRetries after exactly 3.
C5_RetriesExhausted ==
    /\ attempts <= 3
    /\ (pc[Caller] = "connect_ret" /\ attempts > 0 /\ stub.k >= attempts
          /\ (stub.hard = 0 \/ stub.hard > attempts)) =>
            (connRes = "ExceededHandshakeRetries" /\ attempts = 3)
    /\ (pc[Caller] = "connect_ret" /\ connRes = "ExceededHandshakeRetries") =>
            (attempts = 3 /\ stream = 0)

C5_Witness ==
    /\ pc[Caller] = "connect_ret"
    /\ stub.k >= 3
    /\ stub.hard = 0
    /\ connRes = "ExceededHandshakeRetries"
    /\ attempts = 3

\* C6: once a handshake attempt has failed hard, connect has returned the Ssl
\* error and issues no further attempt, whether the failure came at the first
\* attempt or at a retry.
C6_HardFailureAborts ==
    (stub.hard > 0 /\ attempts >= stub.hard) =>
        /\ attempts = stub.hard
        /\ pc[Caller] = "connect_ret"
        /\ connRes = "Ssl"

C6_Witness ==
    /\ stub.hard = 3
    /\ attempts = 3
    /\ connRes = "Ssl"

IsPrefix(a, b) == Len(a) <= Len(b) /\ a = SubSeq(b, 1, Len(a))

\* C7: Client::new calls connect, version_exchange, authenticate and only then
\* starts the keep-alive thread, each step only after the one before succeeded;
\* no Ping is sent and no thread runs before both frames are out.
C7_StartupOrder ==
    /\ IsPrefix(calls, <<"connect", "version_exchange", "authenticate", "spawn">>)
    /\ Len(calls) >= 2 => 1 \in secured
    /\ Len(calls) >= 3 => (Len(done[1]) >= 1 /\ FrameId(done[1][1]) = VersionId)
    /\ Len(calls) >= 4 => (Len(done[1]) >= 2 /\ FrameId(done[1][2]) = AuthenticateId)
    /\ IsError(newResult) => (op # "new" /\ pc[Worker] = "none" /\ spawned = 0)
    /\ (pc[Worker] # "none" \/ spawned > 0 \/ send[Worker].pc # "idle") => Len(calls) = 4
    /\ \A tr \in Transports : \A i \in 1..Len(done[tr]) :
           FrameId(done[tr][i]) = PingId => Len(calls) = 4

C7_Witness ==
    /\ newResult = <<"SendError", "Ssl">>
    /\ calls = <<"connect", "version_exchange">>

\* what the thread now inside ssl_write on transport tr has written of its packet
InProgress(tr) ==
    LET writers == {t \in Threads : send[t].pc = "write" /\ send[t].tr = tr} IN
    IF writers = {} THEN <<>>
    ELSE LET t == CHOOSE t \in writers : TRUE IN SubSeq(send[t].packet, 1, send[t].n)

\* C8: what is on a transport is a run of whole frames, followed at most by the
\* part written so far of the frame of the one thread inside ssl_write; a thread
\* holds the lock exactly from lock() to the end of its one frame's write.
C8_FramesDoNotInterleave ==
    /\ \A tr \in Transports : wire[tr] = Flatten(done[tr]) \o InProgress(tr)
    /\ \A t \in Threads : lock = t <=> send[t].pc \in {"write", "unlock"}

C8_Witness ==
    \E t, u \in Senders :
        /\ t # u
        /\ send[t].pc = "write"
        /\ send[t].n \in 1..5
        /\ send[u].pc = "lock"
        /\ done[1] # <<>>

\* the frame the claim describes, for a send that returned Ok: f is the packet
\* put on the transport, id and payload the call's arguments
IsFrameOf(f, id, payload) ==
    /\ Len(f) = 6 + Len(payload.bytes)
    /\ f[1] * 256 + f[2] = id
    /\ \A i \in 1..4 : f[2 + i] = payload.len[5 - i]
    /\ payload.len[5] = 0
    /\ payload.bytes # <<Elided>> =>
           f[3] * 16777216 + f[4] * 65536 + f[5] * 256 + f[6] = Len(payload.bytes)
    /\ SubSeq(f, 7, Len(f)) = payload.bytes

\* C9: a send_message that returns Ok has written the 2-byte big-endian id, the
\* 4-byte big-endian payload length and the payload, and nothing else;
\* version_exchange sends id 0, authenticate id 2, ping id 3, and a ping is the
\* six bytes 00 03 00 00 00 00.
C9_FrameEncoding ==
    /\ \A t \in Threads :
         (send[t].pc \in {"unlock", "done"} /\ send[t].res = "Ok") =>
            LET d == done[send[t].tr] IN
            /\ d # <<>>
            /\ IsFrameOf(d[Len(d)], send[t].id, send[t].payload)
            /\ wire[send[t].tr] = Flatten(d)
    /\ pc[Caller] = "version_sent" => send[Caller].id = 0
    /\ pc[Caller] = "authenticate_sent" => send[Caller].id = 2
    /\ pc[Worker] = "ping_sent" => (send[Worker].id = 3 /\ send[Worker].payload.bytes = <<>>)
    /\ (pc[Worker] = "ping_sent" /\ send[Worker].pc = "done" /\ send[Worker].res = "Ok") =>
          LET w == wire[send[Worker].tr] IN
          SubSeq(w, Len(w) - 5, Len(w)) = <<0, 3, 0, 0, 0, 0>>

C9_Witness ==
    /\ send[FrameThread].pc = "done"
    /\ send[FrameThread].res = "Ok"
    /\ send[FrameThread].id = 65535
    /\ send[FrameThread].payload.len = U32_MAX

\* C10: whenever the caller has released its last owning reference, the Client
\* and its transport are gone: the keep-alive thread keeps nothing alive.
C10_ReleaseTearsDown == Released => (control_channel = 0 /\ open = {} /\ ~workerStrong)

\* C11: a Client::new that returned Ok has started exactly one keep-alive
\* thread, and no call starts a second one; a Client::new that returned an
\* error has started none, and nothing of the session is left: no handle on
\* the caller's side, none held by a thread, no Client and no open transport.
C11_WorkerIffSuccess ==
    /\ spawned <= 1
    /\ newResult = <<"Ok">> => spawned = 1 /\ pc[Worker] # "none"
    /\ pc[Worker] # "none" => newResult = <<"Ok">>
    /\ IsError(newResult) =>
         /\ spawned = 0
         /\ pc[Worker] = "none"
         /\ handles = 0 /\ ~owned /\ ~workerStrong
         /\ control_channel = 0
         /\ open = {}
         /\ newResult[1] = "SendError" <=> Len(calls) >= 2

\* new got as far as authenticate, whose write failed
C11_Witness ==
    /\ newResult = <<"SendError", "Ssl">>
    /\ calls = <<"connect", "version_exchange", "authenticate">>
    /\ wire[1] # <<>>
    /\ open = {}

\* the caller is inside Client::connect
InConnect == pc[Caller] \in {"context", "tcp", "ssl_connect", "handshake_loop", "connect_ret"}

\* C12: nothing of a frame is ever written to a transport whose TLS handshake
\* has not completed: every transport that carries bytes, every transport a
\* send holds and the session's own transport are secured; while connect runs
\* the caller sends nothing and the transport being opened carries nothing;
\* and a new or reconnect that failed in connect has put no byte on any
\* transport that was not secured before.
C12_NoCleartextFrame ==
    /\ \A tr \in Transports : wire[tr] # <<>> => tr \in secured
    /\ \A t \in Threads : send[t].tr # 0 => send[t].tr \in secured
    /\ control_channel # 0 => control_channel \in secured
    /\ InConnect =>
         /\ send[Caller] = NoSend
         /\ stream # 0 => wire[stream] = <<>>
    /\ newResult[1] = "ConnectionError" => \A tr \in Transports : wire[tr] = <<>>
    /\ reconnectResult[1] = "ConnectionError" =>
         \A tr \in Transports : wire[tr] # <<>> => tr <= prev

\* a handshake was given up after its retries and the call returned with no
\* byte written
C12_Witness ==
    /\ newResult = <<"ConnectionError", "ExceededHandshakeRetries">>
    /\ created = 1
    /\ 1 \notin secured
    /\ wire[1] = <<>>

\* thread t of SpecPoison found the Mutex poisoned at lock().unwrap()
PanickedAtLock(t) ==
    /\ send[t].pc = "panicked"
    /\ send[t].packet # <<>>
    /\ send[t].tr = 0

\* C13: once a thread has panicked while holding the guard of the session's
\* Mutex, the Mutex stays poisoned, no byte is written to the transport any
\* more, no thread is past the lock, and every send_message that comes to the
\* lock ends in a panic.
C13_PoisonIsFatal ==
    [][poisoned =>
         /\ poisoned'
         /\ wire' = wire /\ done' = done
         /\ \A t \in Senders :
              /\ send[t].pc \notin {"write", "unlock"}
              /\ send'[t].pc \notin {"write", "unlock"}
              /\ (send[t].pc = "lock" /\ send'[t].pc # "lock") => PanickedAtLock(t)']_vars

\* one thread panicked under the guard after part of its frame, and another
\* thread's later send_message panicked at the lock
C13_Witness ==
    /\ poisoned
    /\ \E t \in Senders : send[t].pc = "panicked" /\ send[t].tr # 0
    /\ \E t \in Senders : PanickedAtLock(t) /\ ncalls[t] = MaxCalls

\* C14: with the keep-alive thread scheduled fairly and each of its pings
\* returning, once the caller has released its last owning reference the
\* thread finds the session gone at its next upgrade and exits.
C14_WorkerExitsAfterRelease == Released ~> (pc[Worker] = "exited")

\* the caller released while the thread was in its loop; the thread sent its
\* ping and then exited
C14_Witness ==
    /\ Released
    /\ pc[Worker] = "exited"
    /\ after.sleeps = 1
    /\ after.pings = 1

\* the keep-alive thread's ping has returned an error
PingFailed ==
    /\ pc[Worker] = "ping_sent"
    /\ send[Worker].pc = "done"
    /\ send[Worker].res # "Ok"

\* C15: when a keep-alive ping has returned an error the thread's next step
\* is the upgrade at the top of the loop: it neither pings again nor exits
\* there, and it changes nothing of the session (transport, lock, wire, the
\* caller's position and handles, no connect started); with the handle alive
\* that upgrade leads to the sleep, and a ping is only ever started by the
\* step that ends a sleep, one send_message per ping.
C15_FailedPingIgnored ==
    [][/\ (PingFailed /\ pc'[Worker] # pc[Worker]) =>
            /\ pc'[Worker] = "upgrade"
            /\ send'[Worker] = NoSend
            /\ handles > 0 => UNCHANGED <<control_channel, open>>
            /\ UNCHANGED <<op, connVars, lock, wireVars, secured, handles, owned,
                           resVars, poisoned>>
            /\ pc'[Caller] = pc[Caller]
       /\ (pc[Worker] = "upgrade" /\ handles > 0 /\ pc'[Worker] # pc[Worker]) =>
            pc'[Worker] = "sleep"
       /\ (pc'[Worker] = "ping" /\ pc[Worker] # "ping") => pc[Worker] = "sleep"
       /\ (pc'[Worker] = "ping_sent" /\ pc[Worker] # "ping_sent") =>
            pc[Worker] = "ping" /\ send'[Worker].pc = "start"
       /\ (send'[Worker].pc = "start" /\ send[Worker].pc # "start") =>
            pc[Worker] = "ping" /\ pc'[Worker] = "ping_sent"]_vars

\* a ping has failed while the caller still holds the session
C15_Witness ==
    /\ PingFailed
    /\ handles > 0
    /\ control_channel # 0

\* the session exists and neither new nor reconnect is running on it
Ready == newResult = <<"Ok">> /\ op = "none" /\ control_channel # 0

\* a send on the session has come back from ssl_write with an error
SendFailed(t) == send[t].pc \in {"unlock", "done"} /\ send[t].res = "Ssl"

\* C16: on a Ready session a step of a send that has failed leaves the
\* session on the same transport (or, with no handle left, drops it), opens
\* no transport and starts no connect, version_exchange or authenticate; a
\* Ready session's transport is never exchanged for another; and connect is
\* started on a Ready session only by the caller's own call of reconnect, made
\* from outside any send.
C16_NoAutomaticRecovery ==
    [][Ready =>
         /\ \A t \in {Caller, Worker} :
              (SendFailed(t) /\ send'[t] # send[t]) =>
                 /\ UNCHANGED <<op, connVars, secured, wireVars, pc[Caller]>>
                 /\ \/ UNCHANGED <<control_channel, open>>
                    \/ handles = 0 /\ control_channel' = 0
         /\ control_channel' \in {control_channel, 0}
         /\ created' = created
         /\ op' # "none" =>
              /\ op' = "reconnect"
              /\ owned /\ pc[Caller] = "idle" /\ pc'[Caller] = "context"
              /\ send' = send /\ pc'[Worker] = pc[Worker]
         /\ pc'[Caller] \in {"version", "authenticate"} => pc[Caller] = pc'[Caller]]_vars

\* the keep-alive ping of a Ready session has just failed in ssl_write
C16_Witness ==
    /\ Ready
    /\ send[Worker].pc = "unlock"
    /\ send[Worker].res = "Ssl"
    /\ handles > 0

\* C17: every item of every frame goes to the transport the session holds at
\* that moment, which is open: a send takes its transport from the session's
\* current Mutex each time, reconnect cannot swap the Mutex while a send holds
\* it, and so nothing is written to a transport reconnect has replaced.
C17_WritesGoToCurrentTransport ==
    [][\A tr \in Transports :
         wire'[tr] # wire[tr] =>
            /\ tr = control_channel
            /\ tr = control_channel'
            /\ tr \in open
            /\ tr >= prev]_vars

\* reconnect has replaced the transport and both of its frames went to the
\* new one, the old one carrying what it carried when it was replaced
C17_Witness ==
    /\ reconnectResult = <<"Ok">>
    /\ control_channel > prev /\ prev > 0
    /\ Len(done[control_channel]) = 2
    /\ prev \notin open
    /\ Len(done[prev]) >= 2

\* C18: after the caller has released its last owning reference the
\* keep-alive thread starts writing at most one Ping frame and comes out of
\* at most one sleep; before the release nothing is counted.
C18_AtMostOnePingAfterRelease ==
    /\ after.pings <= 1
    /\ after.sleeps <= 1
    /\ ~Released => after = NoneAfter
    /\ (Released /\ pc[Worker] = "upgrade") => ~workerStrong /\ control_channel = 0

\* the release came while the thread slept: it has woken and sent its one
\* ping, and has not looked at the session again yet
C18_Witness ==
    /\ Released
    /\ after = [pings |-> 1, sleeps |-> 1]
    /\ pc[Worker] = "ping_sent"
    /\ send[Worker].pc = "done"

\* C19: on every transport the first frame written is Version, the second is
\* Authenticate and every later one is Ping; a Version is being written only
\* to a transport that has carried nothing, an Authenticate only after the
\* Version alone, and a Ping only after both, on the transport of new as on
\* one installed by reconnect.
C19_VersionAuthFirst ==
    /\ \A tr \in Transports :
         /\ \A i \in 1..Len(done[tr]) :
              FrameId(done[tr][i]) = (CASE i = 1 -> VersionId
                                        [] i = 2 -> AuthenticateId
                                        [] OTHER -> PingId)
         /\ IsPrefix(Flatten(done[tr]), wire[tr])
    /\ \A t \in {Caller, Worker} :
         send[t].pc \in {"write", "unlock"} =>
            /\ send[t].id = VersionId => Len(done[send[t].tr]) = (IF send[t].res = "Ok" THEN 1 ELSE 0)
            /\ send[t].id = AuthenticateId => Len(done[send[t].tr]) = (IF send[t].res = "Ok" THEN 2 ELSE 1)
            /\ send[t].id = PingId => Len(done[send[t].tr]) >= 2

\* the first transport carried Version, Authenticate and a Ping, and the one
\* reconnect installed carries its own Version and Authenticate
C19_Witness ==
    /\ created = 2
    /\ Len(done[1]) = 3
    /\ Len(done[2]) = 2
    /\ FrameId(done[2][1]) = VersionId
    /\ FrameId(done[2][2]) = AuthenticateId

\* reconnect is inside its call of connect
ReconnectInConnect == op = "reconnect" /\ InConnect

\* C20: while reconnect is inside connect the session keeps the transport it
\* had at the call, still open, and no byte is written to any transport; when
\* connect has failed, the stream it had opened is gone, reconnect returns
\* ConnectionError with connect's own error, and the session is as it was.
C20_ReconnectConnectFailure ==
    [][ReconnectInConnect =>
         /\ control_channel = prev /\ prev \in open
         /\ UNCHANGED wireVars
         /\ ~(pc[Caller] = "connect_ret" /\ connRes = "Ok") =>
              /\ UNCHANGED <<control_channel, lock, secured \cap {prev}>>
              /\ prev \in open'
         /\ (pc[Caller] = "connect_ret" /\ connRes # "Ok" /\ pc'[Caller] # pc[Caller]) =>
              /\ connRes \in {"Ssl", "TcpStream", "ExceededHandshakeRetries"}
              /\ connRes = "TcpStream" => attempts = 0
              /\ connRes = "ExceededHandshakeRetries" => attempts = SSL_HANDSHAKE_RETRIES
              /\ stream = 0
              /\ open = {prev}
              /\ reconnectResult' = <<"ConnectionError", connRes>>
              /\ UNCHANGED <<open, poisoned, owned, handles>>
              /\ op' = "none" /\ pc'[Caller] = "idle"]_vars

\* reconnect has failed in the handshake of a transport it had opened, and the
\* session still holds its first transport with what was written before
C20_Witness ==
    /\ owned
    /\ reconnectResult = <<"ConnectionError", "Ssl">>
    /\ created = 2
    /\ control_channel = 1 /\ 1 \in open /\ 2 \notin open
    /\ wire[2] = <<>>
    /\ Len(done[1]) >= 2

====
